---- MODULE Spec2Model ----
(***************************************************************************)
(* Model of the Verilog preprocessor of vunit                              *)
(*   vunit/parsing/verilog/preprocess.py : preprocess, define, Macro       *)
(*   vunit/parsing/tokenizer.py          : Tokenizer, TokenStream          *)
(* A token is a record [kind, value].  A TokenStream is a pair             *)
(* (tokens, idx) with idx the 0-based cursor of the source, so the current *)
(* token is tokens[idx + 1].  The recursion of preprocess over `include    *)
(* is an explicit call stack of frames [tokens, idx, result]; the          *)
(* definitions table and the included-files log are shared by all frames.  *)
(***************************************************************************)
EXTENDS Integers, Sequences, FiniteSets, TLC

VARIABLES stack, defines, included_files, include_paths, files,
          input, status, output, last,
          regexs, assoc, regex

vars == <<stack, defines, included_files, include_paths, files,
          input, status, output, last, regexs, assoc, regex>>

(***************************************************************************)
(* Bounds of the model                                                     *)
(***************************************************************************)
MaxLen == 5
MaxDepth == 4
MaxArgs == 2
MaxBody == 2
MaxActuals == 2
MaxRules == 2
MaxText == 3
MaxSource == 4
MaxLiveLen == 2

(***************************************************************************)
(* Token kinds used by preprocess.py and tokens                            *)
(***************************************************************************)
PREPROCESSOR == "preprocessor"
IDENTIFIER == "identifier"
WHITESPACE == "white_space"
NEWLINE == "newline"
LPAR == "lpar"
RPAR == "rpar"
COMMA == "comma"
EQUAL == "equal"
STRING_LITERAL == "string"
OTHER_KIND == "other"

Token(kind, value) == [kind |-> kind, value |-> value]

\* the value pop() returns at eof
None == [kind |-> "None", value |-> ""]

SeqsUpTo(S, n) == UNION {[1..k -> S] : k \in 0..n}

EmptyMap == [x \in {} |-> <<>>]

RECURSIVE Flatten(_)
Flatten(ss) == IF ss = <<>> THEN <<>> ELSE Head(ss) \o Flatten(Tail(ss))

(***************************************************************************)
(* TokenStream                                                             *)
(***************************************************************************)
eof(tokens, idx) == ~(idx < Len(tokens))

RECURSIVE skip_while(_, _, _)
skip_while(tokens, idx, kinds) ==
    IF eof(tokens, idx) THEN idx
    ELSE IF ~(tokens[idx + 1].kind \in kinds) THEN idx
    ELSE skip_while(tokens, idx + 1, kinds)

RECURSIVE skip_until(_, _, _)
skip_until(tokens, idx, kinds) ==
    IF eof(tokens, idx) THEN idx
    ELSE IF tokens[idx + 1].kind \in kinds THEN idx
    ELSE skip_until(tokens, idx + 1, kinds)

\* pop moving the cursor at eof as well
pop_past_end(tokens, idx) ==
    IF eof(tokens, idx) THEN [token |-> None, idx |-> idx + 1]
    ELSE [token |-> tokens[idx + 1], idx |-> idx + 1]

\* pop() as the pair of its return value and the cursor it leaves
pop(tokens, idx) ==
    IF eof(tokens, idx) THEN [token |-> None, idx |-> idx]
    ELSE [token |-> tokens[idx + 1], idx |-> idx + 1]

\* Python slice _tokens[start:end] with 0 <= start, end <= len
slice(tokens, start, end) ==
    IF end <= start THEN <<>> ELSE SubSeq(tokens, start + 1, end)

(***************************************************************************)
(* Macro                                                                   *)
(***************************************************************************)
Macro(name, tokens, args, defaults) ==
    [name |-> name, tokens |-> tokens, args |-> args, defaults |-> defaults]

NoMacro == Macro("", <<>>, <<>>, EmptyMap)

num_args(macro) == Len(macro.args)

\* tuple.index: 0-based position of the first occurrence
index(args, v) ==
    (CHOOSE i \in 1..Len(args) :
        args[i] = v /\ \A j \in 1..(i - 1) : args[j] # v) - 1

InArgs(args, v) == \E i \in 1..Len(args) : args[i] = v

\* expand_loop with the test of line 182 lost: a parameter without actual
\* and without default is copied instead of ending the expansion
RECURSIVE expand_loop_keep(_, _, _, _)
expand_loop_keep(macro, values, k, acc) ==
    IF k > Len(macro.tokens) THEN acc
    ELSE LET token == macro.tokens[k] IN
         IF token.kind = IDENTIFIER /\ InArgs(macro.args, token.value)
         THEN LET idx == index(macro.args, token.value) IN
              IF idx >= Len(values)
              THEN IF token.value \notin DOMAIN macro.defaults
                   THEN expand_loop_keep(macro, values, k + 1, Append(acc, token))
                   ELSE expand_loop_keep(macro, values, k + 1,
                                         acc \o macro.defaults[token.value])
              ELSE expand_loop_keep(macro, values, k + 1, acc \o values[idx + 1])
         ELSE expand_loop_keep(macro, values, k + 1, Append(acc, token))

\* expand_loop looking at the defaults before the actuals
RECURSIVE expand_loop_default_first(_, _, _, _)
expand_loop_default_first(macro, values, k, acc) ==
    IF k > Len(macro.tokens) THEN acc
    ELSE LET token == macro.tokens[k] IN
         IF token.kind = IDENTIFIER /\ InArgs(macro.args, token.value)
         THEN LET idx == index(macro.args, token.value) IN
              IF token.value \in DOMAIN macro.defaults
              THEN expand_loop_default_first(macro, values, k + 1,
                                             acc \o macro.defaults[token.value])
              ELSE IF idx >= Len(values) THEN <<>>
              ELSE expand_loop_default_first(macro, values, k + 1,
                                             acc \o values[idx + 1])
         ELSE expand_loop_default_first(macro, values, k + 1, Append(acc, token))

\* expand_loop copying the body token where the default is to be taken
RECURSIVE expand_loop_default_kept(_, _, _, _)
expand_loop_default_kept(macro, values, k, acc) ==
    IF k > Len(macro.tokens) THEN acc
    ELSE LET token == macro.tokens[k] IN
         IF token.kind = IDENTIFIER /\ InArgs(macro.args, token.value)
         THEN LET idx == index(macro.args, token.value) IN
              IF idx >= Len(values)
              THEN IF token.value \notin DOMAIN macro.defaults
                   THEN <<>>
                   ELSE expand_loop_default_kept(macro, values, k + 1,
                                                 Append(acc, token))
              ELSE expand_loop_default_kept(macro, values, k + 1,
                                            acc \o values[idx + 1])
         ELSE expand_loop_default_kept(macro, values, k + 1, Append(acc, token))

\* the loop of expand from body position k with the tokens built so far
RECURSIVE expand_loop(_, _, _, _)
expand_loop(macro, values, k, acc) ==
    IF k > Len(macro.tokens) THEN acc
    ELSE LET token == macro.tokens[k] IN
         IF token.kind = IDENTIFIER /\ InArgs(macro.args, token.value)
         THEN LET idx == index(macro.args, token.value) IN
              IF idx >= Len(values)
              THEN IF token.value \notin DOMAIN macro.defaults
                   THEN <<>>
                   ELSE expand_loop(macro, values, k + 1,
                                    acc \o macro.defaults[token.value])
              ELSE expand_loop(macro, values, k + 1, acc \o values[idx + 1])
         ELSE expand_loop(macro, values, k + 1, Append(acc, token))

expand(macro, values) == expand_loop(macro, values, 1, <<>>)

\* the while loop of _parse_macro_actuals
RECURSIVE actuals_loop(_, _, _, _, _)
actuals_loop(tokens, idx, token, value, values) ==
    IF token.kind = RPAR
    THEN [ok |-> TRUE, values |-> Append(values, value), idx |-> idx]
    ELSE LET value1 == IF token.kind = COMMA THEN <<>> ELSE Append(value, token)
             values1 == IF token.kind = COMMA THEN Append(values, value) ELSE values
             p == pop(tokens, idx)
         IN IF p.token = None
            THEN [ok |-> FALSE, values |-> <<>>, idx |-> p.idx]
            ELSE actuals_loop(tokens, p.idx, p.token, value1, values1)

\* _parse_macro_actuals without the test for "(" of lines 223-224
parse_macro_actuals_any_first(tokens, idx) ==
    LET p1 == pop(tokens, idx) IN
    IF p1.token = None THEN [ok |-> FALSE, values |-> <<>>, idx |-> p1.idx]
    ELSE LET p2 == pop(tokens, p1.idx) IN
         IF p2.token = None THEN [ok |-> FALSE, values |-> <<>>, idx |-> p2.idx]
         ELSE actuals_loop(tokens, p2.idx, p2.token, <<>>, <<>>)

\* ok = FALSE stands for the None result
parse_macro_actuals(tokens, idx) ==
    LET p1 == pop(tokens, idx) IN
    IF p1.token = None THEN [ok |-> FALSE, values |-> <<>>, idx |-> p1.idx]
    ELSE IF p1.token.kind # LPAR THEN [ok |-> FALSE, values |-> <<>>, idx |-> p1.idx]
    ELSE LET p2 == pop(tokens, p1.idx) IN
         IF p2.token = None THEN [ok |-> FALSE, values |-> <<>>, idx |-> p2.idx]
         ELSE actuals_loop(tokens, p2.idx, p2.token, <<>>, <<>>)

\* expand_from_stream without the shortcut of lines 206-207
expand_from_stream_always_parse(macro, tokens, idx) ==
    LET a == parse_macro_actuals(tokens, idx) IN
    IF ~a.ok THEN [tokens |-> <<>>, idx |-> a.idx]
    ELSE [tokens |-> expand(macro, a.values), idx |-> a.idx]

expand_from_stream(macro, tokens, idx) ==
    IF num_args(macro) = 0
    THEN [tokens |-> expand(macro, <<>>), idx |-> idx]
    ELSE LET a == parse_macro_actuals(tokens, idx) IN
         IF ~a.ok THEN [tokens |-> <<>>, idx |-> a.idx]
         ELSE [tokens |-> expand(macro, a.values), idx |-> a.idx]

(***************************************************************************)
(* define                                                                  *)
(***************************************************************************)
\* the parameter-list loop of define; broken = TRUE stands for "return None"
RECURSIVE define_args(_, _, _, _, _)
define_args(tokens, idx, token, args, defaults) ==
    IF token.kind = RPAR
    THEN [broken |-> FALSE, idx |-> idx, args |-> args, defaults |-> defaults]
    ELSE IF token.kind = IDENTIFIER
    THEN LET argname == token.value
             args1 == Append(args, argname)
             p1 == pop(tokens, idx)
         IN IF p1.token = None
            THEN [broken |-> TRUE, idx |-> p1.idx, args |-> args1, defaults |-> defaults]
            ELSE IF p1.token.kind = EQUAL
            THEN LET p2 == pop(tokens, p1.idx)
                     defaults1 == (argname :> <<p2.token>>) @@ defaults
                     p3 == pop(tokens, p2.idx)
                 IN IF p3.token = None
                    THEN [broken |-> TRUE, idx |-> p3.idx, args |-> args1,
                          defaults |-> defaults1]
                    ELSE define_args(tokens, p3.idx, p3.token, args1, defaults1)
            ELSE define_args(tokens, p1.idx, p1.token, args1, defaults)
    ELSE LET p1 == pop(tokens, idx) IN
         IF p1.token = None
         THEN [broken |-> TRUE, idx |-> p1.idx, args |-> args, defaults |-> defaults]
         ELSE define_args(tokens, p1.idx, p1.token, args, defaults)

\* lines 144-152: the body of the macro, up to the next newline
define_body(tokens, idx, name, args, defaults) ==
    LET start == skip_while(tokens, idx, {WHITESPACE})
        end == skip_until(tokens, start, {NEWLINE})
        idx1 == IF ~eof(tokens, end) THEN end + 1 ELSE end
    IN [ret |-> "macro",
        macro |-> Macro(name, slice(tokens, start, end), args, defaults),
        idx |-> idx1]

\* the stream operations of lines 144-148, which run before the unbound
\* local variable args is read at line 149
define_unbound(tokens, idx) ==
    LET start == skip_while(tokens, idx, {WHITESPACE})
        end == skip_until(tokens, start, {NEWLINE})
        idx1 == IF ~eof(tokens, end) THEN end + 1 ELSE end
    IN [ret |-> "raise", macro |-> NoMacro, idx |-> idx1]

\* define(define_token, stream), idx the cursor after the `define token:
\* ret = "macro" a Macro is returned, "none" None is returned,
\* "raise" an exception (UnboundLocalError) leaves the function
define(tokens, idx) ==
    LET p1 == pop(tokens, skip_while(tokens, idx, {WHITESPACE}))
        name_token == p1.token
    IN IF name_token = None \/ name_token.kind = NEWLINE
       THEN [ret |-> "none", macro |-> NoMacro, idx |-> p1.idx]
       ELSE IF name_token.kind # IDENTIFIER
       THEN [ret |-> "none", macro |-> NoMacro, idx |-> p1.idx]
       ELSE LET name == name_token.value
                p2 == pop(tokens, p1.idx)
                token == p2.token
            IN IF token = None
               THEN [ret |-> "macro", macro |-> Macro(name, <<>>, <<>>, EmptyMap),
                     idx |-> p2.idx]
               ELSE IF token.kind \in {WHITESPACE, NEWLINE}
               THEN define_body(tokens, p2.idx, name, <<>>, EmptyMap)
               ELSE IF token.kind = LPAR
               THEN LET a == define_args(tokens, p2.idx, token, <<>>, EmptyMap) IN
                    IF a.broken
                    THEN [ret |-> "none", macro |-> NoMacro, idx |-> a.idx]
                    ELSE define_body(tokens, a.idx, name, a.args, a.defaults)
               ELSE define_unbound(tokens, p2.idx)

(***************************************************************************)
(* The environment of preprocess: include directories and readable files   *)
(***************************************************************************)
\* os.path.join(include_path, file_name) for a relative file name
join(include_path, file_name) == <<include_path, file_name>>

\* os.path.exists(full_name)
exists(full_name) == full_name \in DOMAIN files

\* find_include without the break of line 77: the last directory that
\* holds the file wins
RECURSIVE find_include_last(_, _, _)
find_include_last(paths, k, file_name) ==
    IF k > Len(paths) THEN [found |-> FALSE, full_name |-> <<>>]
    ELSE LET full_name == join(paths[k], file_name)
             later == find_include_last(paths, k + 1, file_name)
         IN IF later.found THEN later
            ELSE IF exists(full_name) THEN [found |-> TRUE, full_name |-> full_name]
            ELSE later

\* the for/else loop of lines 73-81 from position k of include_paths:
\* found = FALSE is the else branch (no break)
RECURSIVE find_include(_, _, _)
find_include(paths, k, file_name) ==
    IF k > Len(paths) THEN [found |-> FALSE, full_name |-> <<>>]
    ELSE LET full_name == join(paths[k], file_name) IN
         IF exists(full_name) THEN [found |-> TRUE, full_name |-> full_name]
         ELSE find_include(paths, k + 1, file_name)

\* include_argument without the test of line 61: the first token of the
\* expansion names the file whatever its kind
include_argument_any_kind(tokens, idx) ==
    LET p == pop(tokens, skip_while(tokens, idx, {WHITESPACE}))
        tok == p.token
    IN IF tok = None THEN [ok |-> FALSE, file_name |-> "", idx |-> p.idx]
       ELSE IF tok.kind = PREPROCESSOR
       THEN IF tok.value \in DOMAIN defines
            THEN LET e == expand_from_stream(defines[tok.value], tokens, p.idx) IN
                 IF Len(e.tokens) = 0
                 THEN [ok |-> FALSE, file_name |-> "", idx |-> e.idx]
                 ELSE [ok |-> TRUE, file_name |-> e.tokens[1].value, idx |-> e.idx]
            ELSE [ok |-> FALSE, file_name |-> "", idx |-> p.idx]
       ELSE IF tok.kind = STRING_LITERAL
       THEN [ok |-> TRUE, file_name |-> tok.value, idx |-> p.idx]
       ELSE [ok |-> FALSE, file_name |-> "", idx |-> p.idx]

\* lines 41-71: the argument of `include; ok = FALSE is one of the
\* "continue" exits, idx the cursor left behind
include_argument(tokens, idx) ==
    LET p == pop(tokens, skip_while(tokens, idx, {WHITESPACE}))
        tok == p.token
    IN IF tok = None THEN [ok |-> FALSE, file_name |-> "", idx |-> p.idx]
       ELSE IF tok.kind = PREPROCESSOR
       THEN IF tok.value \in DOMAIN defines
            THEN LET e == expand_from_stream(defines[tok.value], tokens, p.idx) IN
                 IF Len(e.tokens) = 0
                 THEN [ok |-> FALSE, file_name |-> "", idx |-> e.idx]
                 ELSE IF e.tokens[1].kind # STRING_LITERAL
                 THEN [ok |-> FALSE, file_name |-> "", idx |-> e.idx]
                 ELSE [ok |-> TRUE, file_name |-> e.tokens[1].value, idx |-> e.idx]
            ELSE [ok |-> FALSE, file_name |-> "", idx |-> p.idx]
       ELSE IF tok.kind = STRING_LITERAL
       THEN [ok |-> TRUE, file_name |-> tok.value, idx |-> p.idx]
       ELSE [ok |-> FALSE, file_name |-> "", idx |-> p.idx]

(***************************************************************************)
(* preprocess: one action per iteration of the loop of lines 29-89         *)
(***************************************************************************)
top == stack[Len(stack)]

\* the token popped at line 30
token == top.tokens[top.idx + 1]

Running == status = "running" /\ stack # <<>> /\ ~eof(top.tokens, top.idx)

\* the frame on top of the stack with its cursor and result replaced
SetTop(idx, result) ==
    [stack EXCEPT ![Len(stack)] = [@ EXCEPT !.idx = idx, !.result = result]]

Frame(tokens) == [tokens |-> tokens, idx |-> 0, result |-> <<>>]

Event(op, arg) == [op |-> op, arg |-> arg]

\* KeepToken dropping the white space between the tokens it keeps
KeepToken_no_space ==
    /\ Running
    /\ token.kind # PREPROCESSOR
    /\ stack' = SetTop(top.idx + 1,
                       IF token.kind = WHITESPACE THEN top.result
                       ELSE Append(top.result, token))
    /\ last' = Event("token", token)
    /\ UNCHANGED <<defines, included_files, include_paths, files, input,
                   status, output>>
    /\ UNCHANGED <<regexs, assoc, regex>>

\* lines 31-33
KeepToken ==
    /\ Running
    /\ token.kind # PREPROCESSOR
    /\ stack' = SetTop(top.idx + 1, Append(top.result, token))
    /\ last' = Event("token", token)
    /\ UNCHANGED <<defines, included_files, include_paths, files, input,
                   status, output>>
    /\ UNCHANGED <<regexs, assoc, regex>>

\* Define keeping the entry that the table already has for the name
Define_keep_first ==
    /\ Running
    /\ token.kind = PREPROCESSOR
    /\ token.value = "define"
    /\ LET d == define(top.tokens, top.idx + 1) IN
       IF d.ret = "raise"
       THEN /\ status' = "raised"
            /\ stack' = <<>>
            /\ UNCHANGED defines
       ELSE LET defines1 == IF d.ret = "macro"
                            THEN defines @@ (d.macro.name :> d.macro)
                            ELSE defines
            IN /\ defines' = defines1
               /\ status' = status
               /\ IF token.value \in DOMAIN defines1
                  THEN LET e == expand_from_stream(defines1[token.value],
                                                   top.tokens, d.idx)
                       IN stack' = SetTop(e.idx, top.result \o e.tokens)
                  ELSE stack' = SetTop(d.idx, top.result)
    /\ last' = Event("define", token)
    /\ UNCHANGED <<included_files, include_paths, files, input, output>>
    /\ UNCHANGED <<regexs, assoc, regex>>

\* lines 35-38, then lines 40 and 87-89: the test of line 40 is an "if",
\* not an "elif", so a `define token goes on to the test of line 87
\* against the table as line 38 left it
Define ==
    /\ Running
    /\ token.kind = PREPROCESSOR
    /\ token.value = "define"
    /\ LET d == define(top.tokens, top.idx + 1) IN
       IF d.ret = "raise"
       THEN /\ status' = "raised"
            /\ stack' = <<>>
            /\ UNCHANGED defines
       ELSE LET defines1 == IF d.ret = "macro"
                            THEN (d.macro.name :> d.macro) @@ defines
                            ELSE defines
            IN /\ defines' = defines1
               /\ status' = status
               /\ IF token.value \in DOMAIN defines1
                  THEN LET e == expand_from_stream(defines1[token.value],
                                                   top.tokens, d.idx)
                       IN stack' = SetTop(e.idx, top.result \o e.tokens)
                  ELSE stack' = SetTop(d.idx, top.result)
    /\ last' = Event("define", token)
    /\ UNCHANGED <<included_files, include_paths, files, input, output>>
    /\ UNCHANGED <<regexs, assoc, regex>>

\* Include with a guard against cycles: a file whose path is in the log is
\* not included again
Include_cycle_guard ==
    /\ Running
    /\ token.kind = PREPROCESSOR
    /\ token.value = "include"
    /\ LET a == include_argument(top.tokens, top.idx + 1)
           f == find_include(include_paths, 1, a.file_name)
       IN IF a.ok /\ f.found /\ ~InArgs(included_files, f.full_name)
          THEN /\ Len(stack) < MaxDepth
               /\ included_files' = Append(included_files, f.full_name)
               /\ stack' = Append(SetTop(a.idx, top.result),
                                  Frame(files[f.full_name]))
               /\ last' = Event("include", token)
          ELSE /\ stack' = SetTop(a.idx, top.result)
               /\ last' = Event("include_skipped", token)
               /\ UNCHANGED included_files
    /\ UNCHANGED <<defines, include_paths, files, input, status, output>>
    /\ UNCHANGED <<regexs, assoc, regex>>

\* Include putting the path in front of the log
Include_log_front ==
    /\ Running
    /\ token.kind = PREPROCESSOR
    /\ token.value = "include"
    /\ LET a == include_argument(top.tokens, top.idx + 1)
           f == find_include(include_paths, 1, a.file_name)
       IN IF a.ok /\ f.found
          THEN /\ Len(stack) < MaxDepth
               /\ included_files' = <<f.full_name>> \o included_files
               /\ stack' = Append(SetTop(a.idx, top.result),
                                  Frame(files[f.full_name]))
               /\ last' = Event("include", token)
          ELSE /\ stack' = SetTop(a.idx, top.result)
               /\ last' = Event("include_skipped", token)
               /\ UNCHANGED included_files
    /\ UNCHANGED <<defines, include_paths, files, input, status, output>>
    /\ UNCHANGED <<regexs, assoc, regex>>

\* lines 40-85: the file is resolved, logged, read and tokenized, and the
\* recursive call of line 85 starts as a new frame
Include ==
    /\ Running
    /\ token.kind = PREPROCESSOR
    /\ token.value = "include"
    /\ LET a == include_argument(top.tokens, top.idx + 1)
           f == find_include(include_paths, 1, a.file_name)
       IN IF a.ok /\ f.found
          THEN /\ Len(stack) < MaxDepth
               /\ included_files' = Append(included_files, f.full_name)
               /\ stack' = Append(SetTop(a.idx, top.result),
                                  Frame(files[f.full_name]))
               /\ last' = Event("include", token)
          ELSE /\ stack' = SetTop(a.idx, top.result)
               /\ last' = Event("include_skipped", token)
               /\ UNCHANGED included_files
    /\ UNCHANGED <<defines, include_paths, files, input, status, output>>
    /\ UNCHANGED <<regexs, assoc, regex>>

\* lines 87-89
Invoke ==
    /\ Running
    /\ token.kind = PREPROCESSOR
    /\ token.value \notin {"define", "include"}
    /\ token.value \in DOMAIN defines
    /\ LET e == expand_from_stream(defines[token.value], top.tokens, top.idx + 1)
       IN stack' = SetTop(e.idx, top.result \o e.tokens)
    /\ last' = Event("invoke", token)
    /\ UNCHANGED <<defines, included_files, include_paths, files, input,
                   status, output>>
    /\ UNCHANGED <<regexs, assoc, regex>>

\* Directive with an else branch that keeps the token
Directive_kept ==
    /\ Running
    /\ token.kind = PREPROCESSOR
    /\ token.value \notin {"define", "include"}
    /\ token.value \notin DOMAIN defines
    /\ stack' = SetTop(top.idx + 1, Append(top.result, token))
    /\ last' = Event("directive", token)
    /\ UNCHANGED <<defines, included_files, include_paths, files, input,
                   status, output>>
    /\ UNCHANGED <<regexs, assoc, regex>>

\* Directive leaving the cursor on the directive token
Directive_stuck ==
    /\ Running
    /\ token.kind = PREPROCESSOR
    /\ token.value \notin {"define", "include"}
    /\ token.value \notin DOMAIN defines
    /\ stack' = SetTop(top.idx, top.result)
    /\ last' = Event("directive", token)
    /\ UNCHANGED <<defines, included_files, include_paths, files, input,
                   status, output>>
    /\ UNCHANGED <<regexs, assoc, regex>>

\* a directive token for which no test of lines 35, 40 and 87 holds:
\* the loop goes to its next iteration
Directive ==
    /\ Running
    /\ token.kind = PREPROCESSOR
    /\ token.value \notin {"define", "include"}
    /\ token.value \notin DOMAIN defines
    /\ stack' = SetTop(top.idx + 1, top.result)
    /\ last' = Event("directive", token)
    /\ UNCHANGED <<defines, included_files, include_paths, files, input,
                   status, output>>
    /\ UNCHANGED <<regexs, assoc, regex>>

\* ReturnInclude of a nested call that worked on a table of its own: the
\* caller goes on without the macros of the table it handed over
ReturnInclude_own_table ==
    /\ status = "running"
    /\ Len(stack) > 1
    /\ eof(top.tokens, top.idx)
    /\ LET caller == stack[Len(stack) - 1] IN
       stack' = [SubSeq(stack, 1, Len(stack) - 1) EXCEPT
                   ![Len(stack) - 1] = [caller EXCEPT !.result = @ \o top.result]]
    /\ defines' = EmptyMap
    /\ last' = Event("return_include", None)
    /\ UNCHANGED <<included_files, include_paths, files, input,
                   status, output>>
    /\ UNCHANGED <<regexs, assoc, regex>>

\* line 91 of a nested call, and the "result +=" of line 85 in its caller
ReturnInclude ==
    /\ status = "running"
    /\ Len(stack) > 1
    /\ eof(top.tokens, top.idx)
    /\ LET caller == stack[Len(stack) - 1] IN
       stack' = [SubSeq(stack, 1, Len(stack) - 1) EXCEPT
                   ![Len(stack) - 1] = [caller EXCEPT !.result = @ \o top.result]]
    /\ last' = Event("return_include", None)
    /\ UNCHANGED <<defines, included_files, include_paths, files, input,
                   status, output>>
    /\ UNCHANGED <<regexs, assoc, regex>>

\* line 91 of the outermost call
Return ==
    /\ status = "running"
    /\ Len(stack) = 1
    /\ eof(top.tokens, top.idx)
    /\ status' = "returned"
    /\ output' = top.result
    /\ stack' = <<>>
    /\ last' = Event("return", None)
    /\ UNCHANGED <<defines, included_files, include_paths, files, input>>
    /\ UNCHANGED <<regexs, assoc, regex>>

Next ==
    \/ KeepToken
    \/ Define
    \/ Include
    \/ Invoke
    \/ Directive
    \/ ReturnInclude
    \/ Return

(***************************************************************************)
(* Tokenizer.  A text is a sequence of characters.  The regular            *)
(* expression of a rule is a character class, taken once or as a run       *)
(* ("[a1]" or "[a1]+"), so it never matches the empty text.  The compiled  *)
(* expression is the list of (key, regex) pairs that finalize joined, in   *)
(* the order of registration.  Offsets are 0-based as in the source.       *)
(***************************************************************************)
TokenType(kind, value, location) ==
    [kind |-> kind, value |-> value, location |-> location]

new_token_kind(name) == name

\* chr(ord('a') + n)
Keys == <<"a", "b", "c", "d", "e", "f", "g", "h">>

chr_a(n) == Keys[n + 1]

\* re.compile of the alternation of the named groups
compile(specs) == [pattern |-> specs]

\* how many characters the regex matches at offset pos; 0 is no match
RECURSIVE run(_, _, _)
run(chars, code, pos) ==
    IF pos < Len(code) /\ code[pos + 1] \in chars
    THEN 1 + run(chars, code, pos + 1)
    ELSE 0

match_at(re, code, pos) ==
    IF pos < Len(code) /\ code[pos + 1] \in re.chars
    THEN IF re.many THEN run(re.chars, code, pos) ELSE 1
    ELSE 0

\* the value of search when nothing matches
NoMatch == [lastgroup |-> "None", start |-> -1, end |-> -1]

\* the alternatives of the pattern are tried in order at one offset
RECURSIVE alternation(_, _, _, _)
alternation(pattern, i, code, pos) ==
    IF i > Len(pattern) THEN NoMatch
    ELSE IF match_at(pattern[i].regex, code, pos) > 0
    THEN [lastgroup |-> pattern[i].key, start |-> pos,
          end |-> pos + match_at(pattern[i].regex, code, pos)]
    ELSE alternation(pattern, i + 1, code, pos)

\* regex.search(code, pos): the match at the leftmost offset from pos on.
\* The pattern without alternatives is the empty expression, which matches
\* the empty text at pos with no group.
RECURSIVE search(_, _, _)
search(pattern, code, pos) ==
    IF pos > Len(code) THEN NoMatch
    ELSE IF pattern = <<>>
    THEN [lastgroup |-> "None", start |-> pos, end |-> pos]
    ELSE IF alternation(pattern, 1, code, pos) # NoMatch
    THEN alternation(pattern, 1, code, pos)
    ELSE search(pattern, code, pos + 1)

\* the post-processors given to add: none, one that drops the token and
\* one that takes the first and the last character off its value
FUNC_NONE == "None"
remove == "remove"
unquote == "unquote"

call(func, tok) ==
    IF func = remove THEN None
    ELSE IF func = unquote
    THEN [tok EXCEPT !.value = SubSeq(@, 2, Len(@) - 1)]
    ELSE tok

\* tokenize_loop going on one character behind the end of the match
RECURSIVE tokenize_loop_skip_one(_, _, _, _, _)
tokenize_loop_skip_one(code, file_name, create_locations, start, tokens) ==
    LET match == search(regex.pattern, code, start) IN
    IF match = NoMatch THEN [ret |-> "return", tokens |-> tokens]
    ELSE IF match.lastgroup \notin DOMAIN assoc
    THEN [ret |-> "raise", tokens |-> <<>>]
    ELSE LET lexpos == <<start, match.end - 1>>
             kind == assoc[match.lastgroup].kind
             func == assoc[match.lastgroup].func
             value == SubSeq(code, match.start + 1, match.end)
             location == IF create_locations
                         THEN [file_name |-> file_name, lexpos |-> lexpos]
                         ELSE None
             tok == call(func, TokenType(kind, value, location))
         IN tokenize_loop_skip_one(code, file_name, create_locations,
                                   match.end + 1,
                                   IF tok # None THEN Append(tokens, tok)
                                   ELSE tokens)

\* lines 58-79: the loop of tokenize from the search offset start.  The
\* look-up of line 66 raises KeyError when the match has no group.
RECURSIVE tokenize_loop(_, _, _, _, _)
tokenize_loop(code, file_name, create_locations, start, tokens) ==
    LET match == search(regex.pattern, code, start) IN
    IF match = NoMatch THEN [ret |-> "return", tokens |-> tokens]
    ELSE IF match.lastgroup \notin DOMAIN assoc
    THEN [ret |-> "raise", tokens |-> <<>>]
    ELSE LET lexpos == <<start, match.end - 1>>
             kind == assoc[match.lastgroup].kind
             func == assoc[match.lastgroup].func
             value == SubSeq(code, match.start + 1, match.end)
             location == IF create_locations
                         THEN [file_name |-> file_name, lexpos |-> lexpos]
                         ELSE None
             tok == call(func, TokenType(kind, value, location))
         IN tokenize_loop(code, file_name, create_locations, match.end,
                          IF tok # None THEN Append(tokens, tok) ELSE tokens)

\* lines 53-80; line 59 raises AttributeError while _regex is None
tokenize(code, file_name, create_locations) ==
    IF regex = None THEN [ret |-> "raise", tokens |-> <<>>]
    ELSE tokenize_loop(code, file_name, create_locations, 0, <<>>)

\* the characters of the texts: a letter, a digit and one that no rule
\* matches
Chars == {"a", "1", "#"}

\* the rules that add is called with
Rules ==
    { [name |-> "word", regex |-> [chars |-> {"a"}, many |-> TRUE],
       func |-> FUNC_NONE],
      [name |-> "digit", regex |-> [chars |-> {"1"}, many |-> FALSE],
       func |-> FUNC_NONE],
      [name |-> "comment", regex |-> [chars |-> {"1"}, many |-> TRUE],
       func |-> remove],
      [name |-> "string", regex |-> [chars |-> {"a", "1"}, many |-> TRUE],
       func |-> unquote] }

\* lines 40-48: add(name, regex, func) returns the kind
Add ==
    /\ Len(regexs) < MaxRules
    /\ \E rule \in Rules :
          LET key == chr_a(Len(regexs))
              kind == new_token_kind(rule.name)
          IN /\ regexs' = Append(regexs, [key |-> key, regex |-> rule.regex])
             /\ assoc' = (key :> [kind |-> kind, func |-> rule.func]) @@ assoc
             /\ last' = Event("add", kind)
    /\ status' = "returned"
    /\ UNCHANGED <<regex, input, output>>
    /\ UNCHANGED <<stack, defines, included_files, include_paths, files>>

\* lines 50-51
Finalize ==
    /\ regex' = compile(regexs)
    /\ last' = Event("finalize", None)
    /\ status' = "returned"
    /\ UNCHANGED <<regexs, assoc, input, output>>
    /\ UNCHANGED <<stack, defines, included_files, include_paths, files>>

\* a call tokenize(input, "file", create_locations); output holds the list
\* it returns
Tokenize ==
    /\ \E create_locations \in BOOLEAN :
          LET t == tokenize(input, "file", create_locations) IN
          /\ output' = t.tokens
          /\ status' = IF t.ret = "raise" THEN "raised" ELSE "returned"
          /\ last' = Event("tokenize", create_locations)
    /\ UNCHANGED <<regexs, assoc, regex, input>>
    /\ UNCHANGED <<stack, defines, included_files, include_paths, files>>

\* lines 35-38: the state after Tokenizer(), and the text that tokenize
\* is going to be called with
InitTokenizer ==
    /\ regexs = <<>>
    /\ assoc = EmptyMap
    /\ regex = None
    /\ input \in SeqsUpTo(Chars, MaxText)
    /\ output = <<>>
    /\ status = "running"
    /\ last = Event("call", None)
    /\ stack = <<>>
    /\ defines = EmptyMap
    /\ included_files = <<>>
    /\ include_paths = <<>>
    /\ files = EmptyMap

NextTokenizer ==
    \/ Add
    \/ Finalize
    \/ Tokenize

SpecTokenizer == InitTokenizer /\ [][NextTokenizer]_vars

(***************************************************************************)
(* Inputs: the arguments of the outermost call preprocess(tokens, defines, *)
(* include_paths, included_files) and the files that can be read.  Each    *)
(* input class fixes the first token and draws the rest of the token list  *)
(* from the tokens that matter to the directive it starts with.            *)
(***************************************************************************)
T_define == Token(PREPROCESSOR, "define")
T_include == Token(PREPROCESSOR, "include")
T_foo == Token(PREPROCESSOR, "foo")
T_ws == Token(WHITESPACE, " ")
T_nl == Token(NEWLINE, "\n")
T_lpar == Token(LPAR, "(")
T_rpar == Token(RPAR, ")")
T_comma == Token(COMMA, ",")
T_equal == Token(EQUAL, "=")
T_one == Token(OTHER_KIND, "1")
T_two == Token(OTHER_KIND, "2")
T_str == Token(STRING_LITERAL, "f")

T_strg == Token(STRING_LITERAL, "g")
T_inc == Token(PREPROCESSOR, "inc")

Ident(v) == Token(IDENTIFIER, v)

\* tables given to preprocess as its defines argument
FooPlain == Macro("foo", <<Ident("x"), T_one>>, <<>>, EmptyMap)
FooArgs == Macro("foo", <<Ident("a"), T_comma, Ident("b")>>, <<"a", "b">>, EmptyMap)
FooDefault ==
    Macro("foo", <<Ident("a"), Ident("b")>>, <<"a", "b">>, "b" :> <<T_two>>)
ShadowDefine == Macro("define", <<T_one>>, <<>>, EmptyMap)

\* macros named by the argument of `include
IncString == Macro("inc", <<T_str, T_one>>, <<>>, EmptyMap)
IncArg == Macro("inc", <<Ident("a")>>, <<"a">>, EmptyMap)
IncIdent == Macro("inc", <<Ident("f")>>, <<>>, EmptyMap)

Table(macro) == macro.name :> macro

\* the two include directories and the files found in them
Dirs == {"d1", "d2"}

FileContents ==
    (join("d1", "f") :> {<<T_one>>, <<T_include, T_ws, T_str>>})
    @@ (join("d2", "f") :> {<<Ident("x"), T_two>>})

FileSystems ==
    UNION {{fs \in [P -> UNION {FileContents[p] : p \in P}] :
               \A p \in P : fs[p] \in FileContents[p]} :
           P \in SUBSET DOMAIN FileContents}

\* one file without directives in the first directory
OneFile == join("d1", "f") :> <<T_one>>

\* a file that defines `foo and a file that includes it and then invokes `foo
DefFiles ==
    (join("d1", "f") :> <<T_define, T_ws, Ident("foo"), T_ws, T_two>>)
    @@ (join("d1", "g") :> <<T_include, T_ws, T_str, T_foo>>)

\* two files that include each other
CycleFiles ==
    (join("d1", "f") :> <<T_one, T_include, T_strg>>)
    @@ (join("d1", "g") :> <<T_include, T_ws, T_str>>)

NoFiles == [p \in {} |-> <<>>]

\* `foo defined twice on two lines
TwoDefines ==
    <<T_define, T_ws, Ident("foo"), T_ws, T_one, T_nl,
      T_define, T_ws, Ident("foo"), T_ws, T_two, T_nl>>

InputClass(first, rest, tables, file_systems, path_lists) ==
    [first |-> first, rest |-> rest, tables |-> tables,
     file_systems |-> file_systems, path_lists |-> path_lists]

InputClasses ==
    { InputClass(<<>>, {T_ws, Ident("a"), T_str, T_one},
                 {EmptyMap, Table(FooPlain)}, {NoFiles}, {<<>>}),
      InputClass(<<T_define>>, {T_ws, T_nl, Ident("a"), T_lpar, T_rpar, T_equal},
                 {EmptyMap}, {NoFiles}, {<<>>}),
      InputClass(<<T_define>>, {T_ws, T_nl, Ident("define"), T_one},
                 {EmptyMap, Table(ShadowDefine)}, {NoFiles}, {<<>>}),
      InputClass(<<T_foo>>, {T_lpar, T_rpar, T_comma, T_one},
                 {EmptyMap, Table(FooPlain), Table(FooArgs), Table(FooDefault)},
                 {NoFiles}, {<<>>}),
      InputClass(<<T_include>>, {T_ws, T_str, T_one},
                 {EmptyMap}, FileSystems, SeqsUpTo(Dirs, 2)),
      InputClass(<<T_include>>, {T_ws, T_inc, T_lpar, T_str, T_rpar},
                 {EmptyMap, Table(IncString), Table(IncArg), Table(IncIdent)},
                 {OneFile}, {<<"d1">>}),
      InputClass(<<T_include>>, {T_str, T_strg, T_foo},
                 {EmptyMap, Table(FooPlain)}, {DefFiles, CycleFiles},
                 {<<"d1">>}),
      InputClass(TwoDefines, {T_foo, T_ws, T_lpar},
                 {EmptyMap, Table(FooArgs), Table(FooDefault)},
                 {NoFiles}, {<<>>}) }

Init ==
    \E c \in InputClasses :
        /\ input \in {c.first \o rest : rest \in SeqsUpTo(c.rest, MaxLen)}
        /\ defines \in c.tables
        /\ files \in c.file_systems
        /\ include_paths \in c.path_lists
        /\ stack = <<Frame(input)>>
        /\ included_files = <<>>
        /\ status = "running"
        /\ output = <<>>
        /\ last = Event("call", None)
        /\ regexs = <<>>
        /\ assoc = EmptyMap
        /\ regex = None

Spec == Init /\ [][Next]_vars

(***************************************************************************)
(* preprocess as a running program: the loop of lines 29-89 always goes on *)
(* to its next iteration, a call that has reached the end of its stream    *)
(* always returns.  The inputs are those of Spec with shorter token lists. *)
(***************************************************************************)
InitLive ==
    \E c \in InputClasses :
        /\ input \in {c.first \o rest : rest \in SeqsUpTo(c.rest, MaxLiveLen)}
        /\ defines \in c.tables
        /\ files \in c.file_systems
        /\ include_paths \in c.path_lists
        /\ stack = <<Frame(input)>>
        /\ included_files = <<>>
        /\ status = "running"
        /\ output = <<>>
        /\ last = Event("call", None)
        /\ regexs = <<>>
        /\ assoc = EmptyMap
        /\ regex = None

SpecLive == InitLive /\ [][Next]_vars /\ WF_vars(Next)

(***************************************************************************)
(* TokenStream as an object of its own: the stream is the one frame of the *)
(* stack, built from a token list, and its methods are called in any       *)
(* order.  last holds the method and what it returned, output the list     *)
(* that slice returned.                                                    *)
(***************************************************************************)
StreamTokens == {T_ws, Ident("a")}

KindSets == {{WHITESPACE}, {IDENTIFIER}, {WHITESPACE, NEWLINE}}

Offsets == {-1, 0, 1}

\* lines 88-90: the state after TokenStream(tokens)
InitStream ==
    /\ input \in SeqsUpTo(StreamTokens, MaxLen)
    /\ stack = <<Frame(input)>>
    /\ output = <<>>
    /\ status = "running"
    /\ last = Event("call", None)
    /\ defines = EmptyMap
    /\ included_files = <<>>
    /\ include_paths = <<>>
    /\ files = EmptyMap
    /\ regexs = <<>>
    /\ assoc = EmptyMap
    /\ regex = None

\* lines 133-141
Pop ==
    /\ LET p == pop(top.tokens, top.idx) IN
       /\ stack' = SetTop(p.idx, top.result)
       /\ last' = Event("pop", p.token)
    /\ status' = "returned"
    /\ UNCHANGED <<output, input, defines, included_files, include_paths,
                   files, regexs, assoc, regex>>

\* lines 113-121
SkipWhile ==
    /\ \E kinds \in KindSets :
          LET idx == skip_while(top.tokens, top.idx, kinds) IN
          /\ stack' = SetTop(idx, top.result)
          /\ last' = Event("skip_while", idx)
    /\ status' = "returned"
    /\ UNCHANGED <<output, input, defines, included_files, include_paths,
                   files, regexs, assoc, regex>>

\* lines 123-131
SkipUntil ==
    /\ \E kinds \in KindSets :
          LET idx == skip_until(top.tokens, top.idx, kinds) IN
          /\ stack' = SetTop(idx, top.result)
          /\ last' = Event("skip_until", idx)
    /\ status' = "returned"
    /\ UNCHANGED <<output, input, defines, included_files, include_paths,
                   files, regexs, assoc, regex>>

\* lines 110-111: _tokens[_idx + offset] as Python indexes a list: a
\* negative index counts from the end, an index outside raises IndexError
Peek ==
    /\ \E offset \in Offsets :
          LET n == Len(top.tokens)
              i == top.idx + offset
          IN IF i >= n \/ i < -n
             THEN status' = "raised" /\ last' = Event("peek", None)
             ELSE /\ status' = "returned"
                  /\ last' = Event("peek", top.tokens[IF i < 0 THEN i + n + 1
                                                     ELSE i + 1])
    /\ UNCHANGED <<stack, output, input, defines, included_files,
                   include_paths, files, regexs, assoc, regex>>

\* lines 143-144
Slice ==
    /\ \E start \in 0..Len(top.tokens), end \in 0..Len(top.tokens) :
          /\ output' = slice(top.tokens, start, end)
          /\ last' = Event("slice", <<start, end>>)
    /\ status' = "returned"
    /\ UNCHANGED <<stack, input, defines, included_files, include_paths,
                   files, regexs, assoc, regex>>

NextStream ==
    \/ Pop
    \/ SkipWhile
    \/ SkipUntil
    \/ Peek
    \/ Slice

SpecStream == InitStream /\ [][NextStream]_vars

(***************************************************************************)
(* describe_location.  The source text is a sequence of characters in      *)
(* which "\n" is the only line terminator; files maps the file name to     *)
(* its text when file_exists holds for it.  The string that is returned    *)
(* is kept as its parts: the 1-based line number of the header, the line   *)
(* and the underline, a sequence of " " and "~".                           *)
(***************************************************************************)
SourceChars == {"x", "\n"}

\* str.splitlines: the pieces between the terminators, without an empty
\* piece after a final terminator
RECURSIVE splitlines(_, _, _)
splitlines(contents, k, line) ==
    IF k > Len(contents)
    THEN IF line = <<>> THEN <<>> ELSE <<line>>
    ELSE IF contents[k] = "\n"
    THEN <<line>> \o splitlines(contents, k + 1, <<>>)
    ELSE splitlines(contents, k + 1, Append(line, contents[k]))

\* c * n of Python: empty when n is not positive
Repeat(c, n) == [i \in 1..n |-> c]

Min(a, b) == IF a < b THEN a ELSE b

Max(a, b) == IF a < b THEN b ELSE a

\* lines 163-172: the loop over the lines; falling out of it returns None
RECURSIVE describe_loop(_, _, _, _, _)
describe_loop(lines, lineno, count, start, end) ==
    IF lineno >= Len(lines) THEN [ret |-> "None"]
    ELSE LET line == lines[lineno + 1]
             lstart == count
             lend == lstart + Len(line)
         IN IF lstart <= start /\ start <= lend
            THEN [ret |-> "from", lineno |-> lineno + 1, line |-> line,
                  underline |-> Repeat(" ", start - lstart)
                                \o Repeat("~", Min(lend - 1, end) - start + 1)]
            ELSE describe_loop(lines, lineno + 1, lend + 1, start, end)

\* lines 147-172
describe_location(location) ==
    IF location = None THEN [ret |-> "Unknown location"]
    ELSE IF location.file_name \notin DOMAIN files
    THEN [ret |-> "Unknown location in"]
    ELSE describe_loop(splitlines(files[location.file_name], 1, <<>>), 0, 0,
                       location.lexpos[1], location.lexpos[2])

\* the locations describe_location is called with: none, or a span of
\* offsets in the file
Locations ==
    {None} \cup {[file_name |-> "filename", lexpos |-> <<start, end>>] :
                    start \in 0..MaxSource, end \in 0..MaxSource}

InitDescribe ==
    /\ files \in {EmptyMap}
                 \cup {"filename" :> contents :
                          contents \in SeqsUpTo(SourceChars, MaxSource)}
    /\ input = <<>>
    /\ output = <<>>
    /\ status = "running"
    /\ last = Event("call", None)
    /\ stack = <<>>
    /\ defines = EmptyMap
    /\ included_files = <<>>
    /\ include_paths = <<>>
    /\ regexs = <<>>
    /\ assoc = EmptyMap
    /\ regex = None

\* a call describe_location(location); output holds what it returns
Describe ==
    /\ status = "running"
    /\ \E location \in Locations :
          /\ location # None => location.lexpos[1] <= location.lexpos[2]
          /\ output' = describe_location(location)
          /\ last' = Event("describe", location)
    /\ status' = "returned"
    /\ UNCHANGED <<files, input, stack, defines, included_files,
                   include_paths, regexs, assoc, regex>>

NextDescribe == Describe

SpecDescribe == InitDescribe /\ [][NextDescribe]_vars

(***************************************************************************)
(* Macro.expand as a function of its inputs: the table holds one macro     *)
(* drawn from the macros define can build (parameters in any order and     *)
(* number up to MaxArgs, repeated ones included, one-token defaults for    *)
(* some of them, a body up to MaxBody) and expand is called on it with     *)
(* every list of up to MaxActuals actuals.                                 *)
(***************************************************************************)
ParamNames == {"a", "b"}

Range(seq) == {seq[i] : i \in 1..Len(seq)}

BodyTokens == {Ident("a"), Ident("b"), T_one}

DefaultValues == {<<T_two>>, <<Ident("a")>>}

Macros ==
    UNION {{Macro("foo", tokens, args, defaults) :
               tokens \in SeqsUpTo(BodyTokens, MaxBody),
               defaults \in UNION {[D -> DefaultValues] : D \in SUBSET Range(args)}} :
           args \in SeqsUpTo(ParamNames, MaxArgs)}

Actuals == {<<>>, <<T_one>>, <<Ident("b")>>, <<T_one, T_two>>}

InitExpand ==
    /\ defines \in {Table(macro) : macro \in Macros}
    /\ input = <<>>
    /\ stack = <<>>
    /\ files = NoFiles
    /\ include_paths = <<>>
    /\ included_files = <<>>
    /\ status = "running"
    /\ output = <<>>
    /\ last = Event("call", None)
    /\ regexs = <<>>
    /\ assoc = EmptyMap
    /\ regex = None

\* a call macro.expand(values); output holds what it returns
Expand ==
    /\ status = "running"
    /\ \E values \in SeqsUpTo(Actuals, MaxActuals) :
          /\ output' = expand(defines["foo"], values)
          /\ last' = Event("expand", values)
    /\ status' = "returned"
    /\ UNCHANGED <<stack, defines, included_files, include_paths, files, input>>
    /\ UNCHANGED <<regexs, assoc, regex>>

NextExpand == Expand

SpecExpand == InitExpand /\ [][NextExpand]_vars

(***************************************************************************)
(* Properties of preprocess                                                *)
(***************************************************************************)
\* the loop is about to handle a directive token with this value test
AtDirective == Running /\ token.kind = PREPROCESSOR

AtUnknownDirective ==
    /\ AtDirective
    /\ token.value \notin {"define", "include"}
    /\ token.value \notin DOMAIN defines

AtDefine == AtDirective /\ token.value = "define"

\* the step stayed in the same call of preprocess
SameCall == status' = "running" /\ Len(stack') = Len(stack)

\* C1 as stated: a directive token that is neither define nor include nor
\* a key of the definitions table is appended to the output unchanged.
C1_UnknownDirectiveKept ==
    [][AtUnknownDirective =>
          SameCall /\ top'.result = Append(top.result, token)]_vars

\* C1 amended: such a directive token is consumed alone and contributes
\* nothing to the output; the table and the log are left as they were.
C1_UnknownDirectiveDropped ==
    [][AtUnknownDirective =>
          /\ SameCall
          /\ top'.result = top.result
          /\ top'.idx = top.idx + 1
          /\ defines' = defines
          /\ included_files' = included_files]_vars

\* an unknown directive between other tokens has been handled and the call
\* has returned the other tokens only
C1_Witness ==
    /\ status = "returned"
    /\ defines = EmptyMap
    /\ Len(input) >= 3
    /\ input[1] = T_foo
    /\ output = Tail(input)

\* C2: preprocess returns normally for every finite token list; no
\* malformed directive raises a fault.
C2_NeverRaises == status # "raised"

\* C3: processing a `define directive appends no token to the output,
\* whatever the table contains; on success its only effect besides consuming
\* tokens is to set definitions[name] to the new macro.
C3_DefineEmitsNothing ==
    [][(AtDefine /\ status' = "running") =>
          /\ Len(stack') = Len(stack)
          /\ top'.result = top.result
          /\ included_files' = included_files
          /\ \/ defines' = defines
             \/ \E name \in DOMAIN defines' :
                   defines' = (name :> defines'[name]) @@ defines]_vars

NoDirective(tokens) ==
    \A i \in 1..Len(tokens) : tokens[i].kind # PREPROCESSOR

\* C4: tokens that are not directives pass through unchanged and in order;
\* an input without any directive token is returned as it is and leaves the
\* definitions table unchanged.
C4_PlainTokensKept ==
    /\ [](status = "returned" /\ NoDirective(input) => output = input)
    /\ [][NoDirective(input) => defines' = defines]_vars
    /\ [][(Running /\ token.kind # PREPROCESSOR) =>
             /\ SameCall
             /\ top'.result = Append(top.result, token)
             /\ top'.idx = top.idx + 1
             /\ defines' = defines]_vars

\* a call on several plain tokens with a table that is not empty returned
C4_Witness ==
    /\ status = "returned"
    /\ NoDirective(input)
    /\ Len(input) >= 3
    /\ defines = Table(FooPlain)
    /\ \E i \in 1..Len(input) : input[i] = Ident("a")

\* the token the cursor reaches after the white space that follows idx
AfterSpace(tokens, idx, j) ==
    /\ j > idx
    /\ j <= Len(tokens)
    /\ tokens[j].kind # WHITESPACE
    /\ \A i \in (idx + 1)..(j - 1) : tokens[i].kind = WHITESPACE

OnlySpace(tokens, idx) ==
    \A i \in (idx + 1)..Len(tokens) : tokens[i].kind = WHITESPACE

\* the `define whose directive token is tokens[idx] has no name token, a
\* name that is no identifier, or a parameter list that no ")" closes
MalformedDefine(tokens, idx) ==
    \/ OnlySpace(tokens, idx)
    \/ \E j \in 1..Len(tokens) :
          /\ AfterSpace(tokens, idx, j)
          /\ \/ tokens[j].kind # IDENTIFIER
             \/ /\ j < Len(tokens)
                /\ tokens[j + 1].kind = LPAR
                /\ \A i \in (j + 2)..Len(tokens) : tokens[i].kind # RPAR

\* C5: a malformed `define leaves the definitions table exactly as it was
\* and contributes no token to the output.
C5_MalformedDefineNoEffect ==
    [][(AtDefine /\ MalformedDefine(top.tokens, top.idx + 1)) =>
          /\ SameCall
          /\ defines' = defines
          /\ top'.result = top.result]_vars

(***************************************************************************)
(* Properties of Macro                                                     *)
(***************************************************************************)
Expanded == last.op = "expand"

TheMacro == defines["foo"]

\* the 1-based position of a declared parameter: where it is first declared
Position(args, name) ==
    CHOOSE i \in 1..Len(args) :
        args[i] = name /\ \A j \in 1..Len(args) : args[j] = name => i <= j

IsParameter(macro, t) == t.kind = IDENTIFIER /\ t.value \in Range(macro.args)

\* a body token names a parameter that the actuals do not reach and that
\* has no default
Unresolved(macro, values, t) ==
    /\ IsParameter(macro, t)
    /\ Position(macro.args, t.value) > Len(values)
    /\ t.value \notin DOMAIN macro.defaults

\* C6 as stated: fewer actuals than parameters and some parameter that the
\* actuals do not cover has no default: the expansion is empty.
C6_UncoveredParameterEmpties ==
    (/\ Expanded
     /\ Len(last.arg) < Len(TheMacro.args)
     /\ \E i \in (Len(last.arg) + 1)..Len(TheMacro.args) :
           TheMacro.args[i] \notin DOMAIN TheMacro.defaults)
    => output = <<>>

\* C6 amended: the expansion is empty whenever the body holds an identifier
\* naming a parameter whose position the actuals do not cover and that has
\* no default.
C6_UnresolvedBodyParameterEmpties ==
    (/\ Expanded
     /\ \E k \in 1..Len(TheMacro.tokens) :
           Unresolved(TheMacro, last.arg, TheMacro.tokens[k]))
    => output = <<>>

\* expand was called with one actual for two parameters, the second without
\* default, on a body that starts with other tokens and then names it
C6_Witness ==
    /\ Expanded
    /\ TheMacro.args = <<"a", "b">>
    /\ TheMacro.defaults = EmptyMap
    /\ TheMacro.tokens = <<T_one, Ident("b")>>
    /\ last.arg = <<<<T_one>>>>
    /\ output = <<>>

\* what one body token is replaced by
Substitute(macro, values, t) ==
    IF IsParameter(macro, t)
    THEN IF Position(macro.args, t.value) <= Len(values)
         THEN values[Position(macro.args, t.value)]
         ELSE macro.defaults[t.value]
    ELSE <<t>>

\* C7: expand equals the reference substitution: walking the body in order,
\* an identifier naming a declared parameter is replaced by the actual at the
\* parameter's position when the actuals cover it, otherwise by its default;
\* every other token is copied unchanged and in order.
C7_ExpandIsSubstitution ==
    (/\ Expanded
     /\ \A k \in 1..Len(TheMacro.tokens) :
           ~Unresolved(TheMacro, last.arg, TheMacro.tokens[k]))
    => output = Flatten([k \in 1..Len(TheMacro.tokens) |->
                            Substitute(TheMacro, last.arg, TheMacro.tokens[k])])

\* expand has replaced one parameter by a two-token actual and another by
\* its default, in body order
C7_Witness ==
    /\ Expanded
    /\ TheMacro.args = <<"a", "b">>
    /\ TheMacro.defaults = ("b" :> <<T_two>>)
    /\ TheMacro.tokens = <<Ident("b"), Ident("a")>>
    /\ last.arg = <<<<T_one, T_two>>>>
    /\ output = <<T_two, T_one, T_two>>

\* the loop is about to invoke the macro named by a directive token
AtInvoke ==
    /\ AtDirective
    /\ token.value \notin {"define", "include"}
    /\ token.value \in DOMAIN defines

\* C8: a macro without parameters expands to exactly its body and consumes
\* nothing of the call site, also when the next token is "(".
C8_PlainMacroExpandsToBody ==
    [][(AtInvoke /\ num_args(defines[token.value]) = 0) =>
          /\ SameCall
          /\ top'.result = top.result \o defines[token.value].tokens
          /\ top'.idx = top.idx + 1]_vars

\* a macro without parameters was invoked in front of a "(", which is still
\* the next token of the stream
C8_Witness ==
    /\ last.op = "invoke"
    /\ defines = Table(FooPlain)
    /\ Running
    /\ top.idx = 1
    /\ token.kind = LPAR
    /\ top.result = FooPlain.tokens

\* the actuals that start after tokens[idx] are malformed: no "(" follows,
\* or no ")" follows the "("
MalformedActuals(tokens, idx) ==
    \/ idx >= Len(tokens)
    \/ tokens[idx + 1].kind # LPAR
    \/ \A j \in (idx + 2)..Len(tokens) : tokens[j].kind # RPAR

\* C9: for a macro with parameters a malformed list of actuals makes the
\* invocation contribute no token to the output.
C9_MalformedActualsEmitNothing ==
    [][(/\ AtInvoke
        /\ num_args(defines[token.value]) > 0
        /\ MalformedActuals(top.tokens, top.idx + 1)) =>
          SameCall /\ top'.result = top.result]_vars

\* a macro with parameters and a default was invoked with "(" and actuals
\* that no ")" closes, and the call returned an empty output
C9_Witness ==
    /\ status = "returned"
    /\ defines = Table(FooDefault)
    /\ Len(input) >= 4
    /\ input[2] = T_lpar
    /\ input[3] = T_one
    /\ MalformedActuals(input, 1)
    /\ output = <<>>

(***************************************************************************)
(* Properties of `include                                                  *)
(***************************************************************************)
\* the `include token is followed, after white space, by the string
\* literal tokens[j]
IncludesString(j) ==
    /\ AtDirective
    /\ token.value = "include"
    /\ AfterSpace(top.tokens, top.idx + 1, j)
    /\ top.tokens[j].kind = STRING_LITERAL

\* the positions of the include directories that hold the file
Hits(file_name) ==
    {k \in 1..Len(include_paths) : join(include_paths[k], file_name) \in DOMAIN files}

FirstHit(file_name) ==
    CHOOSE k \in Hits(file_name) : \A h \in Hits(file_name) : k <= h

\* C10: `include with a string literal takes the first include directory
\* that holds the file, logs that path once and splices the preprocessed
\* tokens of the file into the output at the place of the directive; when no
\* directory holds it, nothing is logged and nothing is emitted.
C10_IncludeFirstHit ==
    /\ [][\A j \in 1..Len(top.tokens) : IncludesString(j) =>
             LET file_name == top.tokens[j].value IN
             IF Hits(file_name) = {}
             THEN /\ SameCall
                  /\ included_files' = included_files
                  /\ top'.result = top.result
                  /\ top'.idx = j
             ELSE LET full_name ==
                          join(include_paths[FirstHit(file_name)], file_name)
                  IN /\ included_files' = Append(included_files, full_name)
                     /\ Len(stack') = Len(stack) + 1
                     /\ top' = Frame(files[full_name])
                     /\ stack'[Len(stack)] = [top EXCEPT !.idx = j]]_vars
    /\ [][(status = "running" /\ Len(stack) > 1 /\ eof(top.tokens, top.idx)) =>
             /\ Len(stack') = Len(stack) - 1
             /\ top'.result = stack[Len(stack) - 1].result \o top.result
             /\ top'.idx = stack[Len(stack) - 1].idx
             /\ included_files' = included_files]_vars
    /\ [][\A i \in 1..(Len(stack) - 1) :
             (Len(stack') >= Len(stack) /\ status' = "running") =>
                 stack'[i] = stack[i]]_vars

\* the file was missing from the first directory and found in the second:
\* its path is the log and its tokens are the output, between the tokens
\* around the directive
C10_Witness ==
    /\ status = "returned"
    /\ include_paths = <<"d1", "d2">>
    /\ DOMAIN files = {join("d2", "f")}
    /\ input = <<T_include, T_ws, T_str, T_one>>
    /\ included_files = <<join("d2", "f")>>
    /\ output = files[join("d2", "f")] \o <<T_one>>

\* the `include token is followed, after white space, by the directive
\* token tokens[j]
IncludesMacro(j) ==
    /\ AtDirective
    /\ token.value = "include"
    /\ AfterSpace(top.tokens, top.idx + 1, j)
    /\ top.tokens[j].kind = PREPROCESSOR

\* what `include does with a string literal naming file_name when the
\* cursor is left at idx: the effect C10 states
IncludesFile(file_name, idx) ==
    IF Hits(file_name) = {}
    THEN /\ SameCall
         /\ included_files' = included_files
         /\ top'.result = top.result
         /\ top'.idx = idx
    ELSE LET full_name == join(include_paths[FirstHit(file_name)], file_name)
         IN /\ included_files' = Append(included_files, full_name)
            /\ Len(stack') = Len(stack) + 1
            /\ top' = Frame(files[full_name])
            /\ stack'[Len(stack)] = [top EXCEPT !.idx = idx]

\* the `include is given up: nothing is logged, nothing is emitted
IncludesNothing ==
    /\ SameCall
    /\ included_files' = included_files
    /\ top'.result = top.result

\* C11: `include followed by a directive token naming a macro of the table
\* whose expansion starts with a string literal does what `include followed
\* by that string literal does; an unknown macro name, an empty expansion or
\* a first token that is no string literal logs no path and splices no file.
C11_IncludeOfMacro ==
    [][\A j \in 1..Len(top.tokens) : IncludesMacro(j) =>
          LET name == top.tokens[j].value IN
          IF name \notin DOMAIN defines
          THEN IncludesNothing /\ top'.idx = j
          ELSE LET e == expand_from_stream(defines[name], top.tokens, j) IN
               IF e.tokens = <<>> \/ e.tokens[1].kind # STRING_LITERAL
               THEN IncludesNothing /\ top'.idx = e.idx
               ELSE IncludesFile(e.tokens[1].value, e.idx)]_vars

\* `include `inc("f") with inc(a) defined as a has logged the file and
\* returned its tokens
C11_Witness ==
    /\ status = "returned"
    /\ defines = Table(IncArg)
    /\ input = <<T_include, T_ws, T_inc, T_lpar, T_str, T_rpar>>
    /\ included_files = <<join("d1", "f")>>
    /\ output = <<T_one>>

\* the tokens after the `include and its string literal, each `foo replaced
\* by the body that the included file gives it
FooFromFile(tokens) ==
    [i \in 1..Len(tokens) |-> IF tokens[i] = T_foo THEN T_two ELSE tokens[i]]

\* the outermost call included "f", which defines `foo, or "g", which
\* includes "f" and invokes `foo, and has returned
IncludedDefinition ==
    /\ status = "returned"
    /\ files = DefFiles
    /\ Len(input) >= 2
    /\ input[2].kind = STRING_LITERAL

\* C12: a macro defined inside an included file is in the caller's table
\* after the nested call returns and an invocation later in the including
\* token list uses it; the nested call works on the caller's table and on
\* the caller's log: entering and leaving it changes neither, and no step
\* takes a name out of the table.
C12_IncludeSharesTable ==
    /\ [](IncludedDefinition =>
            /\ "foo" \in DOMAIN defines
            /\ defines["foo"].tokens = <<T_two>>
            /\ output = (IF input[2] = T_strg THEN <<T_two>> ELSE <<>>)
                        \o FooFromFile(SubSeq(input, 3, Len(input))))
    /\ [][/\ DOMAIN defines \subseteq DOMAIN defines'
          /\ Len(stack') # Len(stack) => defines' = defines
          /\ Len(stack') < Len(stack) => included_files' = included_files]_vars

\* `include "g" `foo: "g" includes "f", the definition made two calls down
\* is used in "g" and in the outermost token list
C12_Witness ==
    /\ IncludedDefinition
    /\ input = <<T_include, T_strg, T_foo>>
    /\ included_files = <<join("d1", "g"), join("d1", "f")>>
    /\ output = <<T_two, T_two>>

\* the token list started with the two definitions of `foo and the call
\* has returned
DefinedTwice ==
    /\ status = "returned"
    /\ Len(input) >= Len(TwoDefines)
    /\ SubSeq(input, 1, Len(TwoDefines)) = TwoDefines

\* C13: a `define of a name that the table already has replaces the entry
\* by the new macro, with nothing of the earlier parameters, defaults or
\* body left, and leaves the other entries alone; invocations after it use
\* the second definition.
C13_RedefinitionReplaces ==
    /\ [](DefinedTwice =>
            /\ defines = Table(Macro("foo", <<T_two>>, <<>>, EmptyMap))
            /\ output = FooFromFile(SubSeq(input, Len(TwoDefines) + 1,
                                           Len(input))))
    /\ [][AtDefine /\ define(top.tokens, top.idx + 1).ret = "macro" =>
          LET m == define(top.tokens, top.idx + 1).macro IN
          /\ DOMAIN defines' = DOMAIN defines \cup {m.name}
          /\ defines'[m.name] = m
          /\ \A n \in DOMAIN defines \ {m.name} : defines'[n] = defines[n]]_vars

\* `foo had two parameters and a default in the table, was defined twice
\* and then invoked in front of a "("
C13_Witness ==
    /\ DefinedTwice
    /\ input = TwoDefines \o <<T_foo, T_lpar>>
    /\ output = <<T_two, T_lpar>>

IsPrefix(s, t) == Len(s) <= Len(t) /\ SubSeq(t, 1, Len(s)) = s

\* C14: the log of included files only grows at its end: its content before
\* a step is a prefix of its content after it, and a step that adds to it
\* adds the one path whose file the nested call it starts works on, so the
\* path of an include precedes every path its nested includes add.
C14_LogAppendOnly ==
    [][/\ IsPrefix(included_files, included_files')
       /\ included_files' # included_files =>
            /\ Len(included_files') = Len(included_files) + 1
            /\ Len(stack') = Len(stack) + 1
            /\ status' = "running"
            /\ top' = Frame(files[included_files'[Len(included_files')]])]_vars

\* "g", whose file includes "f", was included: the path of "g" precedes
\* the path that the nested call added
C14_Witness ==
    /\ status = "returned"
    /\ input = <<T_include, T_strg>>
    /\ included_files = <<join("d1", "g"), join("d1", "f")>>

Distinct(args) ==
    \A i, j \in 1..Len(args) : args[i] = args[j] => i = j

\* C15: every macro that preprocess installs in the table has pairwise
\* distinct parameters, for any token list given to a `define, a parameter
\* list that repeats an identifier included.
C15_DistinctParameters ==
    \A name \in DOMAIN defines : Distinct(defines[name].args)

\* some token of the list is an identifier named like a parameter
NamesParameter(macro, tokens) ==
    \E k \in 1..Len(tokens) : IsParameter(macro, tokens[k])

\* C16 as stated: the list that expand returns holds no identifier token
\* whose value is a declared parameter name, for any actuals.
C16_NoParameterNamedToken ==
    Expanded => ~NamesParameter(TheMacro, output)

\* C16 amended: expand copies no parameter-named token of the body: when
\* no actual and no default holds an identifier named like a parameter, the
\* list that expand returns holds none either.  Actuals and defaults are
\* inserted as they are, parameter-named identifiers included.
C16_BodyParametersSubstituted ==
    (/\ Expanded
     /\ \A i \in 1..Len(last.arg) : ~NamesParameter(TheMacro, last.arg[i])
     /\ \A name \in DOMAIN TheMacro.defaults :
           ~NamesParameter(TheMacro, TheMacro.defaults[name]))
    => ~NamesParameter(TheMacro, output)

\* both parameters are named in the body; one was replaced by an actual,
\* the other by its default
C16_Witness ==
    /\ Expanded
    /\ TheMacro.args = <<"a", "b">>
    /\ TheMacro.defaults = ("b" :> <<T_two>>)
    /\ TheMacro.tokens = <<Ident("a"), Ident("b")>>
    /\ last.arg = <<<<T_one>>>>
    /\ ~NamesParameter(TheMacro, output)
    /\ output = <<T_one, T_two>>

\* tokenize has returned a list of tokens
Tokenized == last.op = "tokenize" /\ status = "returned"

\* the successive matches of the compiled expression in the text
RECURSIVE Matches(_, _, _)
Matches(pattern, code, start) ==
    IF search(pattern, code, start) = NoMatch THEN <<>>
    ELSE <<search(pattern, code, start)>>
         \o Matches(pattern, code, search(pattern, code, start).end)

Kept(match) == assoc[match.lastgroup].func # remove

\* C17: with create_locations the span of every emitted token is
\* [match_start, match_end - 1], the offsets of the first and the last
\* character of the matched text, also when characters that match no rule
\* were skipped in front of the match.
C17_SpanIsMatch ==
    (Tokenized /\ last.arg = TRUE) =>
        LET emitted == SelectSeq(Matches(regex.pattern, input, 0), Kept) IN
        /\ Len(output) = Len(emitted)
        /\ \A k \in 1..Len(output) :
              output[k].location.lexpos = <<emitted[k].start, emitted[k].end - 1>>

\* the character is in the class of some rule of the compiled expression
Matched(c) == \E i \in 1..Len(regex.pattern) : c \in regex.pattern[i].regex.chars

Values(tokens) == Flatten([k \in 1..Len(tokens) |-> tokens[k].value])

\* C18 as stated: the values of the emitted tokens, concatenated in order,
\* are the text without the characters that match no rule, for any rule
\* set, post-processors that drop or transform included.
C18_ValuesReproduceText ==
    Tokenized => Values(output) = SelectSeq(input, Matched)

\* C18 amended: the same for a compiled expression none of whose rules has
\* a post-processor.
C18_ValuesReproduceTextNoFunc ==
    (/\ Tokenized
     /\ \A i \in 1..Len(regex.pattern) :
           assoc[regex.pattern[i].key].func = FUNC_NONE)
    => Values(output) = SelectSeq(input, Matched)

\* two rules without post-processor have tokenized a text with a character
\* between the matches that neither of them matches
C18_Witness ==
    /\ Tokenized
    /\ Len(regex.pattern) = 2
    /\ \A i \in 1..Len(regex.pattern) :
          assoc[regex.pattern[i].key].func = FUNC_NONE
    /\ input = <<"a", "#", "1">>
    /\ Values(output) = <<"a", "1">>

\* C19: add after finalize and tokenize before finalize raise a fault; no
\* add after finalize returns a kind normally.
C19_LifecycleEnforced ==
    /\ (last.op = "add" /\ regex # None) => status = "raised"
    /\ (last.op = "tokenize" /\ regex = None) => status = "raised"

\* C20: whatever pop, skip_while, skip_until, peek and slice calls are made
\* on a TokenStream, its cursor stays in [0, length] and never decreases;
\* pop at eof returns the no-token value and leaves the cursor where it is,
\* otherwise it returns the token at the cursor and moves the cursor by
\* exactly one; slice does not move the cursor.
C20_CursorMonotonic ==
    /\ [](top.idx \in 0..Len(top.tokens))
    /\ [][/\ top'.tokens = top.tokens
          /\ top'.idx >= top.idx
          /\ last'.op = "pop" =>
                IF top.idx >= Len(top.tokens)
                THEN last'.arg = None /\ top'.idx = top.idx
                ELSE last'.arg = top.tokens[top.idx + 1]
                     /\ top'.idx = top.idx + 1
          /\ last'.op \in {"slice", "peek"} => top'.idx = top.idx]_vars

\* both tokens of a stream were consumed and a pop at eof has returned the
\* no-token value with the cursor still at the length
C20_Witness ==
    /\ Len(input) = 2
    /\ top.idx = 2
    /\ last = Event("pop", None)

\* describe_location has found the line of the start offset
Described == last.op = "describe" /\ output.ret = "from"

TheSource == files["filename"]

\* the offset of the first character of the line that holds the offset
LineStart(contents, offset) ==
    CHOOSE p \in 0..offset :
        /\ p = 0 \/ contents[p] = "\n"
        /\ \A q \in (p + 1)..offset : contents[q] # "\n"

\* the offset of the terminator of that line, or the length of the text
LineEnd(contents, offset) ==
    CHOOSE p \in offset..Len(contents) :
        /\ p = Len(contents) \/ contents[p + 1] = "\n"
        /\ \A q \in offset..(p - 1) : contents[q + 1] # "\n"

\* C21: for a location whose start offset lies on a line of an available
\* source, the underline begins at column start - line_start and is
\* max(1, min(line_end - 1, end) - start + 1) characters "~" long: it is
\* never empty, also when the span ends on a later line or starts at the
\* line terminator.
C21_UnderlineLength ==
    Described =>
        LET start == last.arg.lexpos[1]
            end == last.arg.lexpos[2]
            line_start == LineStart(TheSource, start)
            line_end == LineEnd(TheSource, start)
        IN output.underline =
              Repeat(" ", start - line_start)
              \o Repeat("~", Max(1, Min(line_end - 1, end) - start + 1))

\* some file is being included from inside its own inclusion: two of the
\* nested calls work on the tokens of the same file
CycleEntered ==
    \E i, j \in 2..Len(stack) : i < j /\ stack[i].tokens = stack[j].tokens

\* C22: no cycle guard: an `include that resolves to a path which the log
\* already holds starts a nested call on the file and logs the path again
\* like any other; the log holds one path per nesting level; and once a file
\* is included from inside its own inclusion, directly or through other
\* files, no step leaves that nesting, so preprocess does not return.
C22_NoCycleGuard ==
    /\ [](status = "running" => Len(included_files) >= Len(stack) - 1)
    /\ [][/\ \A j \in 1..Len(top.tokens) :
                (/\ IncludesString(j)
                 /\ Hits(top.tokens[j].value) # {}
                 /\ InArgs(included_files,
                           join(include_paths[FirstHit(top.tokens[j].value)],
                                top.tokens[j].value)))
                => LET full_name ==
                           join(include_paths[FirstHit(top.tokens[j].value)],
                                top.tokens[j].value)
                   IN /\ included_files' = Append(included_files, full_name)
                      /\ Len(stack') = Len(stack) + 1
                      /\ top' = Frame(files[full_name])
          /\ CycleEntered => (CycleEntered' /\ status' = "running")]_vars

\* "f" includes "g" and "g" includes "f": the second call on "f" is nested
\* in the first and the log holds the path of "f" twice
C22_Witness ==
    /\ CycleEntered
    /\ files = CycleFiles
    /\ included_files = <<join("d1", "f"), join("d1", "g"), join("d1", "f")>>
    /\ top = Frame(files[join("d1", "f")])

\* tokens[n] is the first newline token after the directive token at the
\* cursor
FirstNewline(n) ==
    /\ n > top.idx + 1
    /\ n <= Len(top.tokens)
    /\ top.tokens[n].kind = NEWLINE
    /\ \A i \in (top.idx + 2)..(n - 1) : top.tokens[i].kind # NEWLINE

\* C23: a `define consumes tokens only up to and including the first
\* newline token after the directive token; when the name is immediately
\* followed by a newline the installed macro has an empty body and the
\* cursor is left behind that newline, so the tokens of the next line are
\* ordinary input.
C23_DefineStopsAtNewline ==
    [][(AtDefine /\ status' = "running") =>
          /\ \A n \in 1..Len(top.tokens) : FirstNewline(n) => top'.idx <= n
          /\ \A j \in 1..(Len(top.tokens) - 1) :
                (/\ AfterSpace(top.tokens, top.idx + 1, j)
                 /\ top.tokens[j].kind = IDENTIFIER
                 /\ top.tokens[j + 1].kind = NEWLINE)
                => /\ top.tokens[j].value \in DOMAIN defines'
                   /\ defines'[top.tokens[j].value].tokens = <<>>
                   /\ top'.idx = j + 1]_vars

\* the paths that the `include directives with a string literal in the
\* tokens of the file resolve to
IncludedBy(path) ==
    {join(include_paths[FirstHit(files[path][j].value)], files[path][j].value) :
        j \in {j \in 1..Len(files[path]) :
                 /\ files[path][j].kind = STRING_LITERAL
                 /\ Hits(files[path][j].value) # {}
                 /\ \E i \in 1..(j - 1) :
                       /\ files[path][i] = T_include
                       /\ AfterSpace(files[path], i, j)}}

\* the paths reached from a set of paths in up to n steps of IncludedBy
RECURSIVE Reached(_, _)
Reached(paths, n) ==
    IF n = 0 THEN paths
    ELSE Reached(paths \cup UNION {IncludedBy(p) : p \in paths}, n - 1)

\* no file leads back to itself through its includes
Acyclic ==
    \A path \in DOMAIN files :
        path \notin Reached(IncludedBy(path), Cardinality(DOMAIN files))

\* C24: when no file leads back to itself through its includes, preprocess
\* comes to an end on every token list; every iteration of the main loop
\* that stays in the same call moves the cursor forward.
C24_Terminates ==
    /\ Acyclic => <>(status # "running")
    /\ [][SameCall => top'.idx > top.idx]_vars

\* a macro invocation with actuals, inside a file that another file
\* includes, has been expanded and the outermost call has returned
C24_Witness ==
    /\ status = "returned"
    /\ Acyclic
    /\ files = DefFiles
    /\ input = <<T_include, T_strg, T_foo>>
    /\ output = <<T_two, T_two>>

====
